---- MODULE Spec2Model ----
(***************************************************************************)
(* Model of src/sql/workbench/api/node/extHostModelViewDialog.ts: the      *)
(* extension-host side of the model-view dialog API.  DialogImpl, TabImpl  *)
(* and ButtonImpl objects are mirrored to the main thread through         *)
(* one-way proxy calls keyed by numeric handles; button clicks come back   *)
(* through $onButtonClick.                                                 *)
(***************************************************************************)
EXTENDS Integers, Sequences, FiniteSets, TLC

\* ---------------------------------------------------------------- bounds
MaxDialogs == 2
MaxTabs == 2
MaxButtons == 4
MaxSeqLen == 2
MaxListeners == 2
NumCoord == 2
MaxOps == 5

\* ---------------------------------------------------------------- values
Undefined == "<undefined>"
Titles == {"Connect", "General"}
\* the title a dialog or a tab is created with; the setters assign any of Titles
InitialTitles == {"Connect"}
Labels == {"Done", "Run"}
TabContents == {"form"}
DialogTexts == {"text"}

VARIABLES
    currentHandle,      \* ExtHostModelViewDialog._currentHandle (static)
    coords,             \* the ExtHostModelViewDialog instances of the process
    dialogHandles,      \* [coords -> (dialog -> handle)]
    tabHandles,         \* [coords -> (tab -> handle)]
    buttonHandles,      \* [coords -> (button -> handle)]
    onClickCallbacks,   \* [coords -> (handle -> button whose emitter the callback fires)]
    dialogs,            \* the DialogImpl objects, in creation order
    tabs,               \* the TabImpl objects, in creation order
    buttons,            \* the ButtonImpl objects, in creation order
    sent,               \* proxy calls made by the last operation, in order
    op,                 \* the last operation: [name, c, id, arg, was]
    lifecycle,          \* per dialog, the open and close calls made on it so far, in order
    nops,               \* how many operations have run
    outcome,            \* how the last operation ended: "ok" or the exception it threw
    fired               \* <<button, reaction>> listener invocations of the last operation, in order

vars == <<currentHandle, coords, dialogHandles, tabHandles, buttonHandles,
          onClickCallbacks, dialogs, tabs, buttons, sent, op, lifecycle, nops, outcome, fired>>

\* ----------------------------------------------------------- map helpers
\* Map.set(k, v): adds the entry or replaces the value of an existing key.
MapSet(m, k, v) == (k :> v) @@ m
EmptyMap == <<>>
Has(m, k) == k \in DOMAIN m

\* --------------------------------------------------------- wire messages
ButtonDetails(h, b) ==
    [type |-> "setButtonDetails", handle |-> h,
     details |-> [label |-> b.label, enabled |-> b.enabled]]

\* Mutant of TabDetails: title and content change places.
TabDetailsSwapped(h, t) ==
    [type |-> "setTabDetails", handle |-> h,
     details |-> [title |-> t.content, content |-> t.title]]

TabDetails(h, t) ==
    [type |-> "setTabDetails", handle |-> h,
     details |-> [title |-> t.title, content |-> t.content]]

DialogDetails(h, title, ok, cancel, content, custom) ==
    [type |-> "setDialogDetails", handle |-> h,
     details |-> [title |-> title, okButton |-> ok, cancelButton |-> cancel,
                  content |-> content, customButtons |-> custom]]

OpenMsg(h) == [type |-> "open", handle |-> h]
CloseMsg(h) == [type |-> "close", handle |-> h]

\* A reference to an object: Map keys and array elements are compared by identity.
TabRef(t) == [kind |-> "tab", id |-> t]
DialogRef(d) == [kind |-> "dialog", id |-> d]
ButtonRef(b) == [kind |-> "button", id |-> b]
\* a value that is no object of this module (a number, a string, an object literal)
PlainValue == [kind |-> "value", id |-> 0]
\* undefined where a Button is expected
NoButton == 0

\* dialog.content: undefined, a string, or an array (of tabs, by its declared type)
ContentUndefined == [kind |-> "undefined", text |-> "", items |-> <<>>]
ContentText(s) == [kind |-> "string", text |-> s, items |-> <<>>]
ContentTabs(ts) == [kind |-> "array", text |-> "", items |-> ts]
\* dialog.customButtons: undefined or an array of buttons
CustomUndefined == [kind |-> "undefined", items |-> <<>>]
CustomButtons(bs) == [kind |-> "array", items |-> bs]

\* ------------------------------------------------ the coordinator's state
\* The operators below thread one record through a handler's calls:
\*   cur = _currentHandle, dh/th/bh = the handle maps, cb = _onClickCallbacks,
\*   dlg/tab/btn = the objects, out = proxy calls so far, ret = the last return value,
\*   err = the exception thrown so far ("" when none), which ends the handler.
Here ==
    [cur |-> currentHandle, dh |-> dialogHandles, th |-> tabHandles,
     bh |-> buttonHandles, cb |-> onClickCallbacks,
     dlg |-> dialogs, tab |-> tabs, btn |-> buttons, out |-> <<>>, ret |-> 0, err |-> ""]

\* Mutant of getNewHandle: increments before reading the counter.
getNewHandlePreIncrement(s) == [s EXCEPT !.ret = s.cur + 1, !.cur = s.cur + 1]

getNewHandle(s) == [s EXCEPT !.ret = s.cur, !.cur = s.cur + 1]

getDialogHandle(s, c, d) ==
    IF Has(s.dh[c], d)
    THEN [s EXCEPT !.ret = s.dh[c][d]]
    ELSE LET s1 == getNewHandle(s)
         IN  [s1 EXCEPT !.dh[c] = MapSet(@, d, s1.ret)]

\* Mutant of getTabHandle: allocates without looking the tab up first.
getTabHandleFresh(s, c, tab) ==
    LET s1 == getNewHandle(s)
    IN  [s1 EXCEPT !.th[c] = MapSet(@, tab, s1.ret)]

\* tab is a reference: the map takes whatever object it is given as a key
getTabHandle(s, c, tab) ==
    IF Has(s.th[c], tab)
    THEN [s EXCEPT !.ret = s.th[c][tab]]
    ELSE LET s1 == getNewHandle(s)
         IN  [s1 EXCEPT !.th[c] = MapSet(@, tab, s1.ret)]

getButtonHandle(s, c, b) ==
    IF Has(s.bh[c], b)
    THEN [s EXCEPT !.ret = s.bh[c][b]]
    ELSE LET s1 == getNewHandle(s)
         IN  [s1 EXCEPT !.bh[c] = MapSet(@, b, s1.ret)]

\* Mutant of updateButton: sends nothing, and does not fail, for undefined.
updateButtonSkipUndefined(s, c, b) ==
    LET s1 == getButtonHandle(s, c, b)
    IN  IF b = NoButton THEN s1
        ELSE [s1 EXCEPT !.out = Append(@, ButtonDetails(s1.ret, s1.btn[b]))]

\* reading button.label of undefined throws, after getButtonHandle has run
updateButton(s, c, b) ==
    LET s1 == getButtonHandle(s, c, b)
    IN  IF b = NoButton THEN [s1 EXCEPT !.err = "TypeError"]
        ELSE [s1 EXCEPT !.out = Append(@, ButtonDetails(s1.ret, s1.btn[b]))]

updateTabContent(s, c, t) ==
    LET s1 == getTabHandle(s, c, TabRef(t))
    IN  [s1 EXCEPT !.out = Append(@, TabDetails(s1.ret, s1.tab[t]))]

\* ButtonImpl: set label / set enabled write the field, then call updateButton
\* on the coordinator the button was constructed with.
setLabel(s, b, label) ==
    updateButton([s EXCEPT !.btn[b].label = label], s.btn[b].owner, b)

\* Mutant of setEnabled: skips the update when the value does not change.
setEnabledIfChanged(s, b, enabled) ==
    IF s.btn[b].enabled = enabled THEN s
    ELSE updateButton([s EXCEPT !.btn[b].enabled = enabled], s.btn[b].owner, b)

setEnabled(s, b, enabled) ==
    updateButton([s EXCEPT !.btn[b].enabled = enabled], s.btn[b].owner, b)

\* Mutant of registerOnClickCallback: keys the callback by a newly allocated handle.
registerOnClickCallbackFresh(s, c, b, callback) ==
    LET s1 == getNewHandle(s)
    IN  [s1 EXCEPT !.cb[c] = MapSet(@, s1.ret, callback)]

registerOnClickCallback(s, c, b, callback) ==
    LET s1 == getButtonHandle(s, c, b)
    IN  [s1 EXCEPT !.cb[c] = MapSet(@, s1.ret, callback)]

\* new ButtonImpl(c): _enabled = true, _label not yet set, no listeners
NewButton(c) == [owner |-> c, label |-> Undefined, enabled |-> TRUE, listeners |-> <<>>]

\* Mutant of createButton: registers the click callback before it stores the handle.
createButtonRegisterFirst(s, c, label) ==
    LET b  == Len(s.btn) + 1
        s1 == [s EXCEPT !.btn = Append(@, NewButton(c))]
        s2 == setLabel(s1, b, label)
        s3 == registerOnClickCallback(s2, c, b, b)
        s4 == getNewHandle(s3)
        s5 == [s4 EXCEPT !.bh[c] = MapSet(@, b, s4.ret)]
    IN  [s5 EXCEPT !.ret = b]

createButton(s, c, label) ==
    LET b  == Len(s.btn) + 1
        s1 == [s EXCEPT !.btn = Append(@, NewButton(c))]
        s2 == setLabel(s1, b, label)
        s3 == getNewHandle(s2)
        s4 == [s3 EXCEPT !.bh[c] = MapSet(@, b, s3.ret)]
        s5 == registerOnClickCallback(s4, c, b, b)
    IN  [s5 EXCEPT !.ret = b]

\* Mutant of createTab: numbers tabs by a counter of their own.
createTabPerKind(s, c, title) ==
    LET t  == Len(s.tab) + 1
        s1 == [s EXCEPT !.tab = Append(@, [owner |-> c, title |-> title, content |-> Undefined])]
        s2 == [s1 EXCEPT !.th[c] = MapSet(@, TabRef(t), Len(s.tab))]
    IN  [s2 EXCEPT !.ret = t]

\* Mutant of createTab: leaves the tab's handle to the first synchronization.
createTabLazy(s, c, title) ==
    LET s1 == [s EXCEPT !.tab = Append(@, [owner |-> c, title |-> title, content |-> Undefined])]
    IN  [s1 EXCEPT !.ret = Len(s.tab) + 1]

createTab(s, c, title) ==
    LET t  == Len(s.tab) + 1
        s1 == [s EXCEPT !.tab = Append(@, [owner |-> c, title |-> title, content |-> Undefined])]
        s2 == getNewHandle(s1)
        s3 == [s2 EXCEPT !.th[c] = MapSet(@, TabRef(t), s2.ret)]
    IN  [s3 EXCEPT !.ret = t]

\* Mutant of createDialog: leaves the dialog's handle to the first synchronization.
createDialogLazy(s, c, title) ==
    LET s1 == createButton(s, c, "Done")
        s2 == createButton(s1, c, "Cancel")
        s3 == [s2 EXCEPT !.dlg = Append(@, [owner |-> c, title |-> title,
                                            content |-> ContentUndefined,
                                            okButton |-> s1.ret, cancelButton |-> s2.ret,
                                            customButtons |-> CustomUndefined])]
    IN  [s3 EXCEPT !.ret = Len(s.dlg) + 1]

createDialog(s, c, title) ==
    LET d  == Len(s.dlg) + 1
        s1 == createButton(s, c, "Done")
        s2 == createButton(s1, c, "Cancel")
        s3 == [s2 EXCEPT !.dlg = Append(@, [owner |-> c, title |-> title,
                                            content |-> ContentUndefined,
                                            okButton |-> s1.ret, cancelButton |-> s2.ret,
                                            customButtons |-> CustomUndefined])]
        s4 == getNewHandle(s3)
        s5 == [s4 EXCEPT !.dh[c] = MapSet(@, d, s4.ret)]
    IN  [s5 EXCEPT !.ret = d]

RECURSIVE updateDialogContent(_, _, _)

\* tab.updateContent() on an element x of dialog.content: a TabImpl and a DialogImpl
\* have the method (each calls the coordinator it was constructed with); on anything
\* else the call throws.
updateContentOf(s, x) ==
    CASE x.kind = "tab" -> updateTabContent(s, s.tab[x.id].owner, x.id)
      [] x.kind = "dialog" -> updateDialogContent(s, s.dlg[x.id].owner, x.id)
      [] OTHER -> [s EXCEPT !.err = "TypeError"]

\* Mutant of forEachTabUpdateContent: walks the tabs from the last to the first.
RECURSIVE forEachTabUpdateContentReversed(_, _)
forEachTabUpdateContentReversed(s, ts) ==
    IF ts = <<>> \/ s.err # "" THEN s
    ELSE forEachTabUpdateContentReversed(updateContentOf(s, ts[Len(ts)]),
                                         SubSeq(ts, 1, Len(ts) - 1))

\* tabs.forEach(tab => tab.updateContent()), until an element throws
RECURSIVE forEachTabUpdateContent(_, _)
forEachTabUpdateContent(s, ts) ==
    IF ts = <<>> \/ s.err # "" THEN s
    ELSE forEachTabUpdateContent(updateContentOf(s, Head(ts)), Tail(ts))

\* dialog.customButtons.forEach(button => this.updateButton(button))
RECURSIVE forEachUpdateButton(_, _, _)
forEachUpdateButton(s, c, bs) ==
    IF bs = <<>> \/ s.err # "" THEN s
    ELSE forEachUpdateButton(updateButton(s, c, Head(bs)), c, Tail(bs))

\* dialog.content.map(tab => this.getTabHandle(tab)); ret = the handles so far
RECURSIVE mapGetTabHandle(_, _, _, _)
mapGetTabHandle(s, c, ts, acc) ==
    IF ts = <<>> THEN [s EXCEPT !.ret = acc]
    ELSE LET s1 == getTabHandle(s, c, Head(ts))
         IN  mapGetTabHandle(s1, c, Tail(ts), Append(acc, s1.ret))

\* dialog.customButtons.map(button => this.getButtonHandle(button))
RECURSIVE mapGetButtonHandle(_, _, _, _)
mapGetButtonHandle(s, c, bs, acc) ==
    IF bs = <<>> THEN [s EXCEPT !.ret = acc]
    ELSE LET s1 == getButtonHandle(s, c, Head(bs))
         IN  mapGetButtonHandle(s1, c, Tail(bs), Append(acc, s1.ret))

updateDialogContent(s, c, d) ==
    LET dialog == s.dlg[d]
        s0  == getDialogHandle(s, c, d)
        handle == s0.ret
        s1  == IF dialog.content.kind = "array"
               THEN forEachTabUpdateContent(s0, dialog.content.items) ELSE s0
        s2  == IF s1.err = "" /\ dialog.customButtons.kind = "array"
               THEN forEachUpdateButton(s1, c, dialog.customButtons.items) ELSE s1
        s3  == IF s2.err = "" THEN updateButton(s2, c, dialog.okButton) ELSE s2
        s4  == IF s3.err = "" THEN updateButton(s3, c, dialog.cancelButton) ELSE s3
        s5  == getButtonHandle(s4, c, dialog.okButton)
        s6  == getButtonHandle(s5, c, dialog.cancelButton)
        s7  == IF dialog.content.kind = "array"
               THEN mapGetTabHandle(s6, c, dialog.content.items, <<>>) ELSE s6
        content == IF dialog.content.kind = "array"
                   THEN ContentTabs(s7.ret) ELSE dialog.content
        s8  == IF dialog.customButtons.kind = "array"
               THEN mapGetButtonHandle(s7, c, dialog.customButtons.items, <<>>) ELSE s7
        custom == IF dialog.customButtons.kind = "array"
                  THEN CustomButtons(s8.ret) ELSE CustomUndefined
    IN  IF s4.err # "" THEN s4
        ELSE [s8 EXCEPT !.out = Append(@, DialogDetails(handle, dialog.title, s5.ret, s6.ret,
                                                        content, custom))]

\* Mutant of open: sends the open directive before the dialog's state.
openBeforeUpdate(s, c, d) ==
    LET s1 == getDialogHandle(s, c, d)
    IN  updateDialogContent([s1 EXCEPT !.out = Append(@, OpenMsg(s1.ret))], c, d)

open(s, c, d) ==
    LET s1 == getDialogHandle(s, c, d)
        s2 == updateDialogContent(s1, c, d)
    IN  IF s2.err # "" THEN s2 ELSE [s2 EXCEPT !.out = Append(@, OpenMsg(s1.ret))]

\* Mutant of close: synchronizes the dialog before closing it.
closeWithUpdate(s, c, d) ==
    LET s1 == getDialogHandle(s, c, d)
        s2 == updateDialogContent(s1, c, d)
    IN  [s2 EXCEPT !.out = Append(@, CloseMsg(s1.ret))]

close(s, c, d) ==
    LET s1 == getDialogHandle(s, c, d)
    IN  [s1 EXCEPT !.out = Append(@, CloseMsg(s1.ret))]

\* Emitter.fire(): calls the listeners in the order they subscribed
EmitterFire(b) == [i \in 1..Len(buttons[b].listeners) |-> <<b, buttons[b].listeners[i]>>]

\* ---------------------------------------------------------------- inputs
SeqsUpTo(S, n) == UNION {[1..k -> S] : k \in 0..n}
ContentInputs ==
    {ContentUndefined} \cup {ContentText(x) : x \in DialogTexts}
        \cup {ContentTabs(ts) : ts \in SeqsUpTo({TabRef(t) : t \in DOMAIN tabs}, MaxSeqLen)}
CustomInputs ==
    {CustomUndefined} \cup {CustomButtons(bs) : bs \in SeqsUpTo(DOMAIN buttons, MaxSeqLen)}

\* What a caller that ignores the declared types can put into dialog.content: next to
\* tabs, a plain value, a button, or another dialog.  A dialog is offered as an
\* element only while its own content holds no dialog, so that containment stays
\* acyclic (a dialog that contains itself makes updateDialogContent recurse forever).
HasDialogElement(d) ==
    /\ dialogs[d].content.kind = "array"
    /\ \E i \in DOMAIN dialogs[d].content.items : dialogs[d].content.items[i].kind = "dialog"
NonTabElements(d) ==
    {PlainValue} \cup {ButtonRef(b) : b \in DOMAIN buttons}
        \cup {DialogRef(e) : e \in {e \in DOMAIN dialogs : e # d /\ ~HasDialogElement(e)}}
UntypedContentInputs(d) ==
    {ContentTabs(xs) : xs \in
        {xs \in SeqsUpTo({TabRef(t) : t \in DOMAIN tabs} \cup NonTabElements(d), MaxSeqLen) :
            \E i \in DOMAIN xs : xs[i].kind # "tab"}}
\* customButtons arrays that hold undefined where a button is expected
UntypedCustomInputs ==
    {CustomButtons(bs) : bs \in
        {bs \in SeqsUpTo(DOMAIN buttons \cup {NoButton}, MaxSeqLen) :
            \E i \in DOMAIN bs : bs[i] = NoButton}}

\* ------------------------------------------------------------- the state
\* The record of an operation: its name, the coordinator it runs on, the object (or,
\* for a click, the handle) it is about, and the value it assigns, if any.
Op(name, c, id, arg) == [name |-> name, c |-> c, id |-> id, arg |-> arg, was |-> ""]
\* Dialog state machine Created -> Opened -> Closed: observed, never read by a handler.
LifecycleState(d) ==
    IF lifecycle[d] = <<>> THEN "Created"
    ELSE IF lifecycle[d][Len(lifecycle[d])] = "open" THEN "Opened" ELSE "Closed"
\* open and close also record the lifecycle state they found the dialog in.
DialogOp(name, d) == [Op(name, dialogs[d].owner, d, "") EXCEPT !.was = LifecycleState(d)]
BoolArg(x) == IF x THEN "true" ELSE "false"

Observe(o) ==
    CASE o.name = "createDialog" -> Append(lifecycle, <<>>)
      [] o.name \in {"open", "close"} -> [lifecycle EXCEPT ![o.id] = Append(@, o.name)]
      [] OTHER -> lifecycle

InitWith(cs) ==
    /\ currentHandle = 0
    /\ coords = cs
    /\ dialogHandles = [c \in cs |-> EmptyMap]
    /\ tabHandles = [c \in cs |-> EmptyMap]
    /\ buttonHandles = [c \in cs |-> EmptyMap]
    /\ onClickCallbacks = [c \in cs |-> EmptyMap]
    /\ dialogs = <<>>
    /\ tabs = <<>>
    /\ buttons = <<>>
    /\ sent = <<>>
    /\ nops = 0
    /\ op = Op("init", 0, 0, "")
    /\ lifecycle = <<>>
    /\ outcome = "ok"
    /\ fired = <<>>

Init == InitWith({1})

\* A handler that returned, or threw s.err, from the current state and left s.
Returns(s, o) ==
    /\ nops < MaxOps
    /\ nops' = nops + 1
    /\ currentHandle' = s.cur
    /\ dialogHandles' = s.dh
    /\ tabHandles' = s.th
    /\ buttonHandles' = s.bh
    /\ onClickCallbacks' = s.cb
    /\ dialogs' = s.dlg
    /\ tabs' = s.tab
    /\ buttons' = s.btn
    /\ sent' = s.out
    /\ op' = o
    /\ lifecycle' = Observe(o)
    /\ outcome' = (IF s.err = "" THEN "ok" ELSE s.err)
    /\ fired' = <<>>
    /\ UNCHANGED coords

\* -------------------------------------------------------------- actions
CreateDialog ==
    \E c \in coords, title \in InitialTitles :
        /\ Len(dialogs) < MaxDialogs
        /\ Len(buttons) + 2 <= MaxButtons
        /\ Returns(createDialog(Here, c, title), Op("createDialog", c, Len(dialogs) + 1, title))

CreateTab ==
    \E c \in coords, title \in InitialTitles :
        /\ Len(tabs) < MaxTabs
        /\ Returns(createTab(Here, c, title), Op("createTab", c, Len(tabs) + 1, title))

CreateButton ==
    \E c \in coords, label \in Labels :
        /\ Len(buttons) < MaxButtons
        /\ Returns(createButton(Here, c, label), Op("createButton", c, Len(buttons) + 1, label))

DialogOpen ==
    \E d \in DOMAIN dialogs :
        Returns(open(Here, dialogs[d].owner, d), DialogOp("open", d))

DialogClose ==
    \E d \in DOMAIN dialogs :
        Returns(close(Here, dialogs[d].owner, d), DialogOp("close", d))

DialogUpdateContent ==
    \E d \in DOMAIN dialogs :
        Returns(updateDialogContent(Here, dialogs[d].owner, d),
                Op("updateDialogContent", dialogs[d].owner, d, ""))

TabUpdateContent ==
    \E t \in DOMAIN tabs :
        Returns(updateTabContent(Here, tabs[t].owner, t), Op("updateTabContent", tabs[t].owner, t, ""))

SetLabel ==
    \E b \in DOMAIN buttons, label \in Labels :
        Returns(setLabel(Here, b, label), Op("setLabel", buttons[b].owner, b, label))

SetEnabled ==
    \E b \in DOMAIN buttons, enabled \in BOOLEAN :
        Returns(setEnabled(Here, b, enabled), Op("setEnabled", buttons[b].owner, b, BoolArg(enabled)))

\* plain field writes of DialogImpl and TabImpl
SetDialogTitle ==
    \E d \in DOMAIN dialogs, title \in Titles :
        Returns([Here EXCEPT !.dlg[d].title = title], Op("setDialogTitle", dialogs[d].owner, d, title))

SetDialogContent ==
    \E d \in DOMAIN dialogs, content \in ContentInputs :
        Returns([Here EXCEPT !.dlg[d].content = content],
                Op("setDialogContent", dialogs[d].owner, d, ""))

SetDialogCustomButtons ==
    \E d \in DOMAIN dialogs, custom \in CustomInputs :
        Returns([Here EXCEPT !.dlg[d].customButtons = custom],
                Op("setDialogCustomButtons", dialogs[d].owner, d, ""))

\* dialog.okButton = button, dialog.cancelButton = button: plain field writes
SetDialogOkButton ==
    \E d \in DOMAIN dialogs, b \in DOMAIN buttons :
        Returns([Here EXCEPT !.dlg[d].okButton = b], Op("setDialogOkButton", dialogs[d].owner, d, ""))

SetDialogCancelButton ==
    \E d \in DOMAIN dialogs, b \in DOMAIN buttons :
        Returns([Here EXCEPT !.dlg[d].cancelButton = b],
                Op("setDialogCancelButton", dialogs[d].owner, d, ""))

\* the same field writes with values the declared types do not allow
SetDialogContentUntyped ==
    \E d \in DOMAIN dialogs :
        \E content \in UntypedContentInputs(d) :
            Returns([Here EXCEPT !.dlg[d].content = content],
                    Op("setDialogContent", dialogs[d].owner, d, "untyped"))

SetDialogCustomButtonsUntyped ==
    \E d \in DOMAIN dialogs, custom \in UntypedCustomInputs :
        Returns([Here EXCEPT !.dlg[d].customButtons = custom],
                Op("setDialogCustomButtons", dialogs[d].owner, d, "untyped"))

SetDialogOkButtonUndefined ==
    \E d \in DOMAIN dialogs :
        Returns([Here EXCEPT !.dlg[d].okButton = NoButton],
                Op("setDialogOkButton", dialogs[d].owner, d, "untyped"))

SetDialogCancelButtonUndefined ==
    \E d \in DOMAIN dialogs :
        Returns([Here EXCEPT !.dlg[d].cancelButton = NoButton],
                Op("setDialogCancelButton", dialogs[d].owner, d, "untyped"))

SetTabTitle ==
    \E t \in DOMAIN tabs, title \in Titles :
        Returns([Here EXCEPT !.tab[t].title = title], Op("setTabTitle", tabs[t].owner, t, title))

SetTabContent ==
    \E t \in DOMAIN tabs, content \in TabContents :
        Returns([Here EXCEPT !.tab[t].content = content],
                Op("setTabContent", tabs[t].owner, t, content))

\* button.onClick(listener): subscribes a new listener to the button's emitter; a
\* listener is named by its position among the button's subscriptions
Subscribe ==
    \E b \in DOMAIN buttons :
        /\ Len(buttons[b].listeners) < MaxListeners
        /\ Returns([Here EXCEPT !.btn[b].listeners = Append(@, Len(@) + 1)],
                   Op("onClick", buttons[b].owner, b, ""))

\* $onButtonClick(handle): this._onClickCallbacks.get(handle)()
OnButtonClickKnown ==
    \E c \in coords, handle \in 0..currentHandle :
        /\ Has(onClickCallbacks[c], handle)
        /\ nops < MaxOps
        /\ nops' = nops + 1
        /\ fired' = EmitterFire(onClickCallbacks[c][handle])
        /\ outcome' = "ok"
        /\ sent' = <<>>
        /\ op' = Op("onButtonClick", c, handle, "")
        /\ UNCHANGED <<currentHandle, coords, dialogHandles, tabHandles, buttonHandles,
                       onClickCallbacks, dialogs, tabs, buttons, lifecycle>>

\* Map.get returns undefined for a missing key, and calling undefined throws
OnButtonClickUnknown ==
    \E c \in coords, handle \in 0..currentHandle :
        /\ ~Has(onClickCallbacks[c], handle)
        /\ nops < MaxOps
        /\ nops' = nops + 1
        /\ fired' = <<>>
        /\ outcome' = "TypeError"
        /\ sent' = <<>>
        /\ op' = Op("onButtonClick", c, handle, "")
        /\ UNCHANGED <<currentHandle, coords, dialogHandles, tabHandles, buttonHandles,
                       onClickCallbacks, dialogs, tabs, buttons, lifecycle>>

OnButtonClick == OnButtonClickKnown \/ OnButtonClickUnknown

\* new ExtHostModelViewDialog(mainContext): a further instance, with empty maps
NewCoordinator ==
    /\ Cardinality(coords) < NumCoord
    /\ nops < MaxOps
    /\ nops' = nops + 1
    /\ LET c == Cardinality(coords) + 1
       IN  /\ coords' = coords \cup {c}
           /\ dialogHandles' = (c :> EmptyMap) @@ dialogHandles
           /\ tabHandles' = (c :> EmptyMap) @@ tabHandles
           /\ buttonHandles' = (c :> EmptyMap) @@ buttonHandles
           /\ onClickCallbacks' = (c :> EmptyMap) @@ onClickCallbacks
           /\ op' = Op("new", c, 0, "")
    /\ sent' = <<>>
    /\ outcome' = "ok"
    /\ fired' = <<>>
    /\ UNCHANGED <<currentHandle, dialogs, tabs, buttons, lifecycle>>

Next ==
    \/ CreateDialog
    \/ CreateTab
    \/ CreateButton
    \/ DialogOpen
    \/ DialogClose
    \/ DialogUpdateContent
    \/ TabUpdateContent
    \/ SetLabel
    \/ SetEnabled
    \/ SetDialogTitle
    \/ SetDialogContent
    \/ SetDialogCustomButtons
    \/ SetDialogOkButton
    \/ SetDialogCancelButton
    \/ SetTabTitle
    \/ SetTabContent
    \/ Subscribe
    \/ OnButtonClick

Spec == Init /\ [][Next]_vars
\* the same process, where further coordinator instances may be constructed
NextMulti == Next \/ NewCoordinator
SpecMulti == Init /\ [][NextMulti]_vars
\* the same coordinator driven by a caller that ignores the declared types
NextUntyped ==
    \/ CreateDialog
    \/ CreateTab
    \/ DialogOpen
    \/ DialogUpdateContent
    \/ SetDialogContentUntyped
    \/ SetDialogCustomButtonsUntyped
    \/ SetDialogOkButtonUndefined
    \/ SetDialogCancelButtonUndefined
SpecUntyped == Init /\ [][NextUntyped]_vars

\* ================================================================ claims
TabItems(d) == IF dialogs[d].content.kind = "array" THEN dialogs[d].content.items ELSE <<>>
CustomItems(d) ==
    IF dialogs[d].customButtons.kind = "array" THEN dialogs[d].customButtons.items ELSE <<>>
IsKeyed(m, type, map, obj) == m.type = type /\ Has(map, obj) /\ m.handle = map[obj]

\* msgs is a full state push of dialog d by coordinator c: the tabs in order, the
\* custom buttons in order, okButton, cancelButton, then the dialog itself.
IsPushOf(d, c, msgs) ==
    LET D  == dialogs[d]
        ts == TabItems(d)
        bs == CustomItems(d)
        nT == Len(ts)
        nB == Len(bs)
    IN  /\ Len(msgs) = nT + nB + 3
        /\ \A i \in 1..nT : IsKeyed(msgs[i], "setTabDetails", tabHandles[c], ts[i])
        /\ \A i \in 1..nB : IsKeyed(msgs[nT + i], "setButtonDetails", buttonHandles[c], bs[i])
        /\ IsKeyed(msgs[nT + nB + 1], "setButtonDetails", buttonHandles[c], D.okButton)
        /\ IsKeyed(msgs[nT + nB + 2], "setButtonDetails", buttonHandles[c], D.cancelButton)
        /\ IsKeyed(msgs[nT + nB + 3], "setDialogDetails", dialogHandles[c], d)
        /\ LET det == msgs[nT + nB + 3].details
           IN  /\ det.content.kind = D.content.kind
               /\ det.content.text = D.content.text
               /\ det.content.items = [i \in 1..nT |-> tabHandles[c][ts[i]]]
               /\ det.customButtons.kind = D.customButtons.kind
               /\ det.customButtons.items = [i \in 1..nB |-> buttonHandles[c][bs[i]]]
        /\ Cardinality({i \in DOMAIN msgs : msgs[i].type = "setDialogDetails"}) = 1

\* C1: one call of open(D) emits, in this order, setTabDetails for each tab of
\* D.content, setButtonDetails for each custom button, for okButton and for
\* cancelButton, one setDialogDetails keyed by D's handle that lists the tab and
\* button handles in the same positions, and last open(D's handle); updateContent(D)
\* emits the same without the open.
C1_OpenEmitsChildrenThenDialogThenOpen ==
    /\ op.name = "open" =>
          /\ Len(sent) >= 1
          /\ IsPushOf(op.id, op.c, SubSeq(sent, 1, Len(sent) - 1))
          /\ IsKeyed(sent[Len(sent)], "open", dialogHandles[op.c], op.id)
    /\ op.name = "updateDialogContent" => IsPushOf(op.id, op.c, sent)

C1_Witness ==
    /\ op.name = "open"
    /\ Len(TabItems(op.id)) = 2
    /\ TabItems(op.id)[1] # TabItems(op.id)[2]
    /\ Len(sent) = 6

KeyedBefore(i, type, h) == \E j \in 1..(i - 1) : sent[j].type = type /\ sent[j].handle = h

\* C2: when a setDialogDetails is emitted, every handle it references (okButton,
\* cancelButton, each tab, each custom button) was the key of an earlier
\* setTabDetails or setButtonDetails of the same call, and when open(h) is emitted a
\* setDialogDetails keyed by h was emitted earlier in the same call.
C2_ReferencedHandlesSentFirst ==
    \A i \in DOMAIN sent :
        /\ sent[i].type = "setDialogDetails" =>
              LET det == sent[i].details
              IN  /\ KeyedBefore(i, "setButtonDetails", det.okButton)
                  /\ KeyedBefore(i, "setButtonDetails", det.cancelButton)
                  /\ \A k \in DOMAIN det.content.items :
                        KeyedBefore(i, "setTabDetails", det.content.items[k])
                  /\ \A k \in DOMAIN det.customButtons.items :
                        KeyedBefore(i, "setButtonDetails", det.customButtons.items[k])
        /\ sent[i].type = "open" => KeyedBefore(i, "setDialogDetails", sent[i].handle)

C2_Witness ==
    /\ op.name = "open"
    /\ Len(TabItems(op.id)) >= 1
    /\ Len(CustomItems(op.id)) >= 1
    /\ \E i \in DOMAIN sent :
          /\ sent[i].type = "setDialogDetails"
          /\ Len(sent[i].details.content.items) >= 1
          /\ Len(sent[i].details.customButtons.items) >= 1

\* Every message of the last operation that is about the button the operation
\* created or assigned to is keyed by the handle the registry holds for that button.
ButtonMessagesUseRegistryHandle ==
    op.name \in {"createButton", "setLabel", "setEnabled"} =>
        \A i \in DOMAIN sent : IsKeyed(sent[i], "setButtonDetails", buttonHandles[op.c], op.id)

KeepsEntries(old, new) == \A k \in DOMAIN old : Has(new, k) /\ new[k] = old[k]

\* C3: an object is assigned a handle at most once: the handle a registry holds for
\* an object never changes, and every message keyed by the object, also the one sent
\* while the object is being created, carries the handle the registry holds for it.
C3_HandleAssignedAtMostOnce ==
    [][/\ \A c \in coords :
             /\ KeepsEntries(dialogHandles[c], dialogHandles'[c])
             /\ KeepsEntries(tabHandles[c], tabHandles'[c])
             /\ KeepsEntries(buttonHandles[c], buttonHandles'[c])
       /\ ButtonMessagesUseRegistryHandle']_vars

\* C4: createButton(label) returns an enabled button with that label, having emitted
\* exactly one setButtonDetails {label, enabled: true} and registered exactly one
\* dispatch entry for it, both under the handle the registry holds for the button.
C4_CreateButtonUsesOneHandle ==
    op.name = "createButton" =>
        LET b == op.id
            c == op.c
        IN  /\ buttons[b].label = op.arg
            /\ buttons[b].enabled
            /\ Len(sent) = 1
            /\ sent[1].type = "setButtonDetails"
            /\ sent[1].details = [label |-> op.arg, enabled |-> TRUE]
            /\ Cardinality({h \in DOMAIN onClickCallbacks[c] : onClickCallbacks[c][h] = b}) = 1
            /\ Has(buttonHandles[c], b)
            /\ sent[1].handle = buttonHandles[c][b]
            /\ Has(onClickCallbacks[c], buttonHandles[c][b])
            /\ onClickCallbacks[c][buttonHandles[c][b]] = b

\* C5: every assignment to a button's label or enabled emits exactly one
\* setButtonDetails, keyed by the button's registered handle, that carries the label
\* and enabled the button has after the assignment, the assigned value among them,
\* also when the value assigned is the one the button already had.
C5_AssignmentEmitsOneUpdate ==
    op.name \in {"setLabel", "setEnabled"} =>
        LET b == buttons[op.id]
        IN  /\ Len(sent) = 1
            /\ IsKeyed(sent[1], "setButtonDetails", buttonHandles[op.c], op.id)
            /\ sent[1].details.label = b.label
            /\ sent[1].details.enabled = b.enabled
            /\ op.name = "setLabel" => b.label = op.arg
            /\ op.name = "setEnabled" => BoolArg(b.enabled) = op.arg

C5_Witness ==
    /\ op.name = "setEnabled"
    /\ op.arg = "false"
    /\ Len(sent) = 1
    /\ sent[1].details.enabled = FALSE
    /\ sent[1].details.label = "Run"

\* C6: a click notification for a handle without a dispatch entry is reported as an
\* UnknownHandleError and invokes no reaction.
C6_UnknownHandleIsReported ==
    (op.name = "onButtonClick" /\ ~Has(onClickCallbacks[op.c], op.id)) =>
        (outcome = "UnknownHandleError" /\ fired = <<>>)

\* C7: a click notification for the registered handle of a button created by
\* createButton invokes each reaction subscribed to that button once, in
\* subscription order, and no reaction of another button.
C7_ClickInvokesTheButtonsReactions ==
    \A b \in DOMAIN buttons :
        (/\ op.name = "onButtonClick"
         /\ buttons[b].owner = op.c
         /\ Has(buttonHandles[op.c], b)
         /\ buttonHandles[op.c][b] = op.id) =>
            /\ outcome = "ok"
            /\ Len(fired) = Len(buttons[b].listeners)
            /\ \A i \in DOMAIN fired : fired[i] = <<b, buttons[b].listeners[i]>>

C7_Witness ==
    /\ op.name = "onButtonClick"
    /\ Len(fired) = 2
    /\ fired[1][2] # fired[2][2]
    /\ \E b \in DOMAIN buttons : b # fired[1][1] /\ buttons[b].listeners # <<>>

\* every (map, object, handle) held by a handle map of any coordinator
Entries ==
    UNION {{<<"dialog", DialogRef(d), dialogHandles[c][d]>> : d \in DOMAIN dialogHandles[c]}
           \cup {<<"tab", t, tabHandles[c][t]>> : t \in DOMAIN tabHandles[c]}
           \cup {<<"button", ButtonRef(b), buttonHandles[c][b]>> : b \in DOMAIN buttonHandles[c]}
           : c \in coords}

\* C8: no handle value is mapped from two different objects, whatever their kind,
\* their fields and the coordinator that registered them.
C8_DistinctObjectsDistinctHandles ==
    \A e1 \in Entries, e2 \in Entries :
        e1[3] = e2[3] => e1[2] = e2[2]

C8_Witness ==
    /\ Cardinality(coords) = 2
    /\ \E b1 \in DOMAIN buttons, b2 \in DOMAIN buttons :
          /\ b1 # b2
          /\ buttons[b1].label = buttons[b2].label
          /\ buttons[b1].enabled = buttons[b2].enabled
          /\ buttons[b1].owner # buttons[b2].owner
          /\ Has(buttonHandles[buttons[b1].owner], b1)
          /\ Has(buttonHandles[buttons[b2].owner], b2)
          /\ Has(buttonHandles[buttons[b1].owner], b2)
    /\ \E c \in coords : dialogHandles[c] # EmptyMap

RegistryHandles == {e[3] : e \in Entries}
\* every handle the state shows in use: in a handle map, as a dispatch key, or in a
\* proxy call of the last operation
UsedHandles ==
    RegistryHandles \cup UNION {DOMAIN onClickCallbacks[c] : c \in coords}
        \cup {sent[i].handle : i \in DOMAIN sent}

\* C9: the allocator starts at 0 and each allocation returns the previous value plus
\* one: the handles a step puts to use for the first time are exactly the values
\* from the old counter up to the new one, so none is issued twice.
C9_HandlesIncreaseByOne ==
    [][/\ currentHandle' >= currentHandle
       /\ UsedHandles' \ RegistryHandles = currentHandle..(currentHandle' - 1)
       /\ (currentHandle = 0 /\ currentHandle' > 0) => 0 \in UsedHandles'
       /\ op'.name = "createTab" =>
             /\ currentHandle' = currentHandle + 1
             /\ Has(tabHandles'[op'.c], TabRef(op'.id))
             /\ tabHandles'[op'.c][TabRef(op'.id)] = currentHandle]_vars

C9_Witness ==
    /\ currentHandle >= 6
    /\ op.name = "createTab"
    /\ Has(tabHandles[op.c], TabRef(op.id))
    /\ tabHandles[op.c][TabRef(op.id)] = currentHandle - 1
    /\ dialogs # <<>>

CloseEmission ==
    /\ Len(sent) = 1
    /\ IsKeyed(sent[1], "close", dialogHandles[op.c], op.id)
    /\ outcome = "ok"
    /\ op.was \in {"Created", "Opened", "Closed"}

OpenEmission ==
    /\ outcome = "ok"
    /\ Len(sent) >= 1
    /\ IsPushOf(op.id, op.c, SubSeq(sent, 1, Len(sent) - 1))
    /\ IsKeyed(sent[Len(sent)], "open", dialogHandles[op.c], op.id)

\* C10: close(D) emits exactly one message, close(D's handle), and changes no
\* registry, whatever was done to D before; an open(D) that follows a close(D) again
\* emits the full state push and then open.
C10_CloseOnlySendsClose ==
    [][/\ op'.name = "close" =>
             /\ CloseEmission'
             /\ UNCHANGED <<currentHandle, dialogHandles, tabHandles, buttonHandles,
                            onClickCallbacks>>
       /\ (op'.name = "open" /\ op'.was = "Closed") => OpenEmission']_vars

C10_Witness ==
    /\ op.name = "close"
    /\ lifecycle[op.id] = <<"close", "open", "close", "close">>
    /\ Len(sent) = 1
    /\ sent[1].type = "close"

\* the dialog's okButton and cancelButton fields hold buttons
ButtonsPresent(d) ==
    /\ dialogs[d].okButton \in DOMAIN buttons
    /\ dialogs[d].cancelButton \in DOMAIN buttons

CreatedDialog ==
    LET D == dialogs[op.id]
    IN  /\ D.title = op.arg
        /\ ButtonsPresent(op.id)
        /\ D.okButton # D.cancelButton
        /\ buttons[D.okButton].label = "Done"
        /\ buttons[D.cancelButton].label = "Cancel"
        /\ buttons[D.okButton].enabled
        /\ buttons[D.cancelButton].enabled
        /\ Has(dialogHandles[op.c], op.id)

\* C11: createDialog(title) returns a dialog that has an okButton labelled "Done" and
\* a cancelButton labelled "Cancel", two distinct enabled buttons, and whose handle
\* is in the dialog registry of its coordinator; afterwards every dialog has both
\* buttons and its registry entry, and open, close and updateContent of a dialog
\* leave the dialog registry as it was.
C11_CreateDialogIsEager ==
    [][/\ op'.name = "createDialog" => CreatedDialog'
       /\ \A d \in DOMAIN dialogs' :
             /\ ButtonsPresent(d)'
             /\ Has(dialogHandles'[dialogs'[d].owner], d)
       /\ op'.name \in {"open", "close", "updateDialogContent"} =>
             /\ Has(dialogHandles[op'.c], op'.id)
             /\ dialogHandles' = dialogHandles]_vars

C11_Witness ==
    /\ op.name = "updateDialogContent"
    /\ lifecycle[op.id] = <<"open", "close">>
    /\ Len(dialogs) = 2
    /\ Has(dialogHandles[op.c], op.id)
    /\ ButtonsPresent(op.id)

IsPush == op.name \in {"open", "updateDialogContent"}
KeyedBy(i, type, map, obj) == \E j \in 1..(i - 1) : IsKeyed(sent[j], type, map, obj)

\* the element x of a dialog's content was synchronized before message i of the call
ElementSyncedBefore(i, x) ==
    CASE x.kind = "tab" -> KeyedBy(i, "setTabDetails", tabHandles[tabs[x.id].owner], x)
      [] x.kind = "dialog" ->
            KeyedBy(i, "setDialogDetails", dialogHandles[dialogs[x.id].owner], x.id)
      [] OTHER -> FALSE

ButtonSyncedBefore(i, c, b) ==
    b # NoButton /\ KeyedBy(i, "setButtonDetails", buttonHandles[c], b)

ChildrenSyncedBefore(i, c, d) ==
    /\ \A k \in DOMAIN TabItems(d) : ElementSyncedBefore(i, TabItems(d)[k])
    /\ \A k \in DOMAIN CustomItems(d) : ButtonSyncedBefore(i, c, CustomItems(d)[k])
    /\ ButtonSyncedBefore(i, c, dialogs[d].okButton)
    /\ ButtonSyncedBefore(i, c, dialogs[d].cancelButton)

\* C12: when the synchronization of a child fails during updateContent or open of a
\* dialog, the call ends in that error and emits neither the dialog's
\* setDialogDetails nor the open directive; a setDialogDetails of a dialog is only
\* ever emitted after every tab, custom button, okButton and cancelButton of that
\* dialog has been synchronized in the same call.
C12_FailedChildAbortsPush ==
    /\ (IsPush /\ outcome # "ok") =>
          \A i \in DOMAIN sent :
              /\ ~IsKeyed(sent[i], "setDialogDetails", dialogHandles[op.c], op.id)
              /\ sent[i].type # "open"
    /\ \A i \in DOMAIN sent, c \in coords :
          \A d \in DOMAIN dialogHandles[c] :
              IsKeyed(sent[i], "setDialogDetails", dialogHandles[c], d) =>
                  ChildrenSyncedBefore(i, c, d)

C12_Witness ==
    /\ op.name = "open"
    /\ outcome = "TypeError"
    /\ Len(TabItems(op.id)) = 2
    /\ TabItems(op.id)[1].kind = "tab"
    /\ TabItems(op.id)[2].kind = "value"
    /\ Len(sent) = 1
    /\ sent[1].type = "setTabDetails"

NonTabItems(d) == {TabItems(d)[k] : k \in {k \in DOMAIN TabItems(d) : TabItems(d)[k].kind # "tab"}}

\* C13: updateContent or open of a dialog whose content holds an element that is not
\* a tab ends in a SerializationError, emits no setDialogDetails for the dialog, and
\* allocates no tab handle for the element.
C13_NonTabElementIsSerializationError ==
    (IsPush /\ NonTabItems(op.id) # {}) =>
        /\ outcome = "SerializationError"
        /\ \A i \in DOMAIN sent :
              ~IsKeyed(sent[i], "setDialogDetails", dialogHandles[op.c], op.id)
        /\ \A x \in NonTabItems(op.id) : ~Has(tabHandles[op.c], x)

\* a dialog held in another dialog's content is pushed as if it were a tab: the call
\* succeeds, and the outer setDialogDetails lists a tab handle allocated for it
DialogSentAsTab ==
    /\ op.name = "open"
    /\ outcome = "ok"
    /\ \E x \in NonTabItems(op.id) :
          /\ x.kind = "dialog"
          /\ Has(tabHandles[op.c], x)
          /\ \E i \in DOMAIN sent :
                /\ IsKeyed(sent[i], "setDialogDetails", dialogHandles[op.c], op.id)
                /\ \E k \in DOMAIN sent[i].details.content.items :
                      sent[i].details.content.items[k] = tabHandles[op.c][x]

\* the buttons coordinator c created (createButton, also the two of each dialog)
ButtonsOf(c) == {b \in DOMAIN buttons : buttons[b].owner = c}

DispatchTableMatches(c) ==
    /\ \A b \in ButtonsOf(c) :
          /\ Has(buttonHandles[c], b)
          /\ Has(onClickCallbacks[c], buttonHandles[c][b])
          /\ onClickCallbacks[c][buttonHandles[c][b]] = b
    /\ DOMAIN onClickCallbacks[c] = {buttonHandles[c][b] : b \in ButtonsOf(c)}
    /\ Cardinality(DOMAIN onClickCallbacks[c]) = Cardinality(ButtonsOf(c))

\* C14: the dispatch table of a coordinator holds exactly one entry for every button
\* it created, keyed by the handle its button registry holds for that button and
\* firing that button, and no other entry; no step removes or replaces an entry,
\* however many reactions are subscribed.
C14_OneDispatchEntryPerButton ==
    [][\A c \in coords' :
          /\ DispatchTableMatches(c)'
          /\ c \in coords => KeepsEntries(onClickCallbacks[c], onClickCallbacks'[c])]_vars

C14_Witness ==
    /\ op.name = "onClick"
    /\ Len(buttons[op.id].listeners) = 2
    /\ Cardinality(coords) = 2
    /\ \E b \in DOMAIN buttons : buttons[b].owner # op.c
    /\ DispatchTableMatches(op.c)

\* C15 as stated: createTab allocates no handle and adds no registry entry (a tab's
\* handle is allocated when the tab is first synchronized), whereas createDialog
\* allocates the dialog's handle.
C15_CreateTabAllocatesNothing ==
    [][/\ op'.name = "createTab" =>
             /\ currentHandle' = currentHandle
             /\ tabHandles' = tabHandles
       /\ op'.name = "createDialog" => Has(dialogHandles'[op'.c], op'.id)]_vars

SynchronizesTabs == op.name \in {"updateTabContent", "open", "updateDialogContent"}

\* C15, amended: createTab allocates exactly one handle and stores it in the tab
\* registry of its coordinator before it returns, as createDialog does for the
\* dialog; every later synchronization of tabs by that coordinator (the tab's
\* updateContent, updateContent or open of a dialog that holds it) finds the entry
\* and allocates no tab handle.
C15_CreateTabAllocatesEagerly ==
    [][/\ op'.name = "createTab" =>
             /\ currentHandle' = currentHandle + 1
             /\ DOMAIN tabHandles'[op'.c] = DOMAIN tabHandles[op'.c] \cup {TabRef(op'.id)}
             /\ ~Has(tabHandles[op'.c], TabRef(op'.id))
             /\ tabHandles'[op'.c][TabRef(op'.id)] = currentHandle
             /\ sent' = <<>>
       /\ op'.name = "createDialog" =>
             /\ ~Has(dialogHandles[op'.c], op'.id)
             /\ Has(dialogHandles'[op'.c], op'.id)
             /\ dialogHandles'[op'.c][op'.id] = currentHandle' - 1
       /\ SynchronizesTabs' =>
             /\ tabHandles' = tabHandles
             /\ \A i \in DOMAIN sent' :
                   sent'[i].type = "setTabDetails" =>
                       \E t \in DOMAIN tabs : IsKeyed(sent'[i], "setTabDetails",
                                                      tabHandles[op'.c], TabRef(t))]_vars

C15_Witness ==
    /\ op.name = "open"
    /\ lifecycle[op.id] = <<"open">>
    /\ Len(TabItems(op.id)) = 2
    /\ \A k \in 1..2 : IsKeyed(sent[k], "setTabDetails", tabHandles[op.c], TabItems(op.id)[k])
    /\ TabItems(op.id)[1] # TabItems(op.id)[2]

Creates == {"createDialog", "createTab", "createButton"}
NonCreating ==
    {"open", "close", "updateDialogContent", "updateTabContent", "setLabel", "setEnabled",
     "onButtonClick"}

\* C16: on objects the coordinator created, open, close, updateContent of a dialog
\* or a tab, the label and enabled setters and click dispatch leave the handle
\* counter, the three handle registries and the dispatch table as they were; the
\* counter moves only in createDialog, createTab and createButton, and no step
\* removes or changes an entry of a registry or of the dispatch table.
C16_OnlyCreatesAllocate ==
    [][/\ op'.name \in NonCreating =>
             UNCHANGED <<currentHandle, dialogHandles, tabHandles, buttonHandles,
                         onClickCallbacks>>
       /\ currentHandle' # currentHandle =>
             (op'.name \in Creates /\ currentHandle' > currentHandle)
       /\ \A c \in coords :
             /\ KeepsEntries(dialogHandles[c], dialogHandles'[c])
             /\ KeepsEntries(tabHandles[c], tabHandles'[c])
             /\ KeepsEntries(buttonHandles[c], buttonHandles'[c])
             /\ KeepsEntries(onClickCallbacks[c], onClickCallbacks'[c])
             /\ op'.name \notin Creates =>
                   /\ dialogHandles'[c] = dialogHandles[c]
                   /\ tabHandles'[c] = tabHandles[c]
                   /\ buttonHandles'[c] = buttonHandles[c]
                   /\ onClickCallbacks'[c] = onClickCallbacks[c]]_vars

C16_Witness ==
    /\ op.name = "open"
    /\ Len(TabItems(op.id)) >= 1
    /\ Len(CustomItems(op.id)) >= 1
    /\ Len(sent) >= 6
    /\ currentHandle = 6

PlainAssignments ==
    {"setDialogTitle", "setDialogContent", "setDialogCustomButtons", "setDialogOkButton",
     "setDialogCancelButton", "setTabTitle", "setTabContent"}

\* the payload of the setDialogDetails of dialog d shows d's fields as they are now
CarriesCurrentDialogFields(m, c, d) ==
    LET D == dialogs[d]
    IN  /\ m.details.title = D.title
        /\ m.details.okButton = buttonHandles[c][D.okButton]
        /\ m.details.cancelButton = buttonHandles[c][D.cancelButton]
        /\ m.details.content.kind = D.content.kind
        /\ m.details.content.text = D.content.text
        /\ m.details.content.items =
              [k \in DOMAIN TabItems(d) |-> tabHandles[c][TabItems(d)[k]]]
        /\ m.details.customButtons.kind = D.customButtons.kind
        /\ m.details.customButtons.items =
              [k \in DOMAIN CustomItems(d) |-> buttonHandles[c][CustomItems(d)[k]]]

CarriesCurrentTabFields(m, c, t) ==
    /\ IsKeyed(m, "setTabDetails", tabHandles[c], TabRef(t))
    /\ m.details = [title |-> tabs[t].title, content |-> tabs[t].content]

\* C17: assigning a dialog's title, content or customButtons, or a tab's title or
\* content, stores the value and emits nothing; updateContent of a tab emits exactly
\* one setTabDetails, keyed by the tab's handle, with the tab's current title and
\* content; updateContent and open of a dialog emit a setDialogDetails and one
\* setTabDetails per tab whose payloads are the field values at the time of the call.
C17_AssignmentsReachHostAtNextPush ==
    /\ op.name \in PlainAssignments => sent = <<>>
    /\ op.name = "setDialogTitle" => dialogs[op.id].title = op.arg
    /\ op.name = "setTabTitle" => tabs[op.id].title = op.arg
    /\ op.name = "setTabContent" => tabs[op.id].content = op.arg
    /\ op.name = "updateTabContent" =>
          /\ Len(sent) = 1
          /\ CarriesCurrentTabFields(sent[1], op.c, op.id)
    /\ IsPush =>
          /\ \E i \in DOMAIN sent :
                /\ IsKeyed(sent[i], "setDialogDetails", dialogHandles[op.c], op.id)
                /\ CarriesCurrentDialogFields(sent[i], op.c, op.id)
          /\ \A k \in DOMAIN TabItems(op.id) :
                CarriesCurrentTabFields(sent[k], op.c, TabItems(op.id)[k].id)

C17_Witness ==
    /\ op.name = "updateDialogContent"
    /\ Len(TabItems(op.id)) = 1
    /\ tabs[TabItems(op.id)[1].id].title = "General"
    /\ sent[1].type = "setTabDetails"
    /\ sent[1].details.title = "General"
    /\ sent[Len(sent)].type = "setDialogDetails"
    /\ sent[Len(sent)].details.content.kind = "array"

====
